---- MODULE Spec2Model ----
(***************************************************************************)
(* Model of the weekly-ETF dashboard pipeline (scraper.py): the History    *)
(* Store, the per-ticker timeline, the ex-dividend comparison engine, the  *)
(* distribution statistics and the alert generator.                        *)
(*                                                                         *)
(* Numbers are exact rationals [k |-> "num", n, d] (d > 0, lowest terms);  *)
(* JSON values that are not finite numbers are kept apart: null, NaN,      *)
(* +/-Infinity and non-numeric strings.  Calendar dates are day numbers.   *)
(***************************************************************************)
EXTENDS Integers, Sequences, FiniteSets, TLC

VARIABLES
    history,       \* data/history: day of the file name -> batch
    clock,         \* the current UTC day
    pc,            \* where main is
    runs,          \* how many times main was started
    generated_at,  \* payload["generated_at"] of the current run
    items,         \* the current run's records
    alerts,        \* the current run's alerts
    outfile,       \* data/weekly_etfs.json
    alertsfile,    \* data/alerts.json
    calcOp,        \* the calculation applied last
    calcIn,        \* its arguments
    calcOut        \* its result

vars == <<history, clock, pc, runs, generated_at, items, alerts, outfile,
          alertsfile, calcOp, calcIn, calcOut>>

pipeVars == <<history, clock, pc, runs, generated_at, items, alerts, outfile,
              alertsfile>>

calcVars == <<calcOp, calcIn, calcOut>>

(***************************************************************************)
(* Values                                                                  *)
(***************************************************************************)
Abs(x) == IF x < 0 THEN -x ELSE x

Sign(x) == IF x < 0 THEN -1 ELSE IF x > 0 THEN 1 ELSE 0

RECURSIVE GCD(_, _)
GCD(a, b) == IF b = 0 THEN a ELSE GCD(b, a % b)

\* Python None / JSON null
Null == [k |-> "null", n |-> 0, d |-> 1]

\* float("nan")
NaN == [k |-> "nan", n |-> 0, d |-> 1]

\* float("inf") with sign s
Inf(s) == [k |-> "inf", n |-> s, d |-> 1]

\* a string that float() cannot convert / that is no ISO date
Str == [k |-> "str", n |-> 0, d |-> 1]

\* the rational n/d in lowest terms with a positive denominator
Rat(n, d) ==
    LET g == GCD(Abs(n), Abs(d))
        s == Sign(d)
    IN  [k |-> "num", n |-> (s * n) \div g, d |-> Abs(d) \div g]

Num(n) == [k |-> "num", n |-> n, d |-> 1]

IsNull(v) == v.k = "null"

IsNum(v) == v.k = "num"

\* a/b <= c/d for a, c >= 0 and b, d > 0, without multiplying (Euclid)
RECURSIVE FracLE(_, _, _, _)
FracLE(a, b, c, d) ==
    LET qa == a \div b
        qc == c \div d
        ra == a % b
        rc == c % d
    IN  IF qa < qc THEN TRUE
        ELSE IF qa > qc THEN FALSE
        ELSE IF ra = 0 THEN TRUE
        ELSE IF rc = 0 THEN FALSE
        ELSE FracLE(d, rc, b, ra)

\* IEEE-754 subtraction a - b on {finite, nan, inf}
FSub(a, b) ==
    IF a.k = "nan" \/ b.k = "nan" THEN NaN
    ELSE IF a.k = "inf" /\ b.k = "inf" THEN IF a.n = b.n THEN NaN ELSE a
    ELSE IF a.k = "inf" THEN a
    ELSE IF b.k = "inf" THEN Inf(-b.n)
    ELSE Rat(a.n * b.d - b.n * a.d, a.d * b.d)

\* IEEE-754 division a / b, b a non-zero number or an infinity or nan
FDiv(a, b) ==
    IF a.k = "nan" \/ b.k = "nan" THEN NaN
    ELSE IF a.k = "inf" /\ b.k = "inf" THEN NaN
    ELSE IF a.k = "inf" THEN Inf(a.n * Sign(b.n))
    ELSE IF b.k = "inf" THEN Num(0)
    ELSE Rat(a.n * b.d, a.d * b.n)

\* IEEE-754 multiplication by a positive integer c
FScale(a, c) ==
    IF a.k = "num" THEN Rat(a.n * c, a.d) ELSE a

\* round(x, digits) for a finite x, p = 10^digits: to the nearest multiple
\* of 1/p, ties to even
RoundTo(x, p) ==
    LET num == x.n * p
        fl == IF num >= 0 THEN num \div x.d ELSE -((-num + x.d - 1) \div x.d)
        r2 == 2 * (num - fl * x.d)
        up == IF r2 > x.d THEN 1
              ELSE IF r2 < x.d THEN 0
              ELSE IF fl % 2 = 0 THEN 0 ELSE 1
    IN  Rat(fl + up, p)

\* round() of a float that may be nan or inf (round keeps those)
FRound(x, p) == IF x.k = "num" THEN RoundTo(x, p) ELSE x

(***************************************************************************)
(* Calculations                                                            *)
(***************************************************************************)
pct_change(new, old) ==
    IF IsNull(new) \/ IsNull(old) THEN Null
    ELSE IF new.k = "str" \/ old.k = "str" THEN Null
    ELSE IF (old.k = "num" /\ old.n = 0) \/ old.k = "nan" THEN Null
    ELSE FScale(FDiv(FSub(new, old), old), 100)

\* an exception propagating out of a function
Raise == [k |-> "raise", n |-> 0, d |-> 1]

\* [x for x in values if x is not None]
NonNull(values) == SelectSeq(values, LAMBDA v : ~IsNull(v))

HasStr(values) == \E i \in 1..Len(values) : values[i].k = "str"

HasNonFinite(values) == \E i \in 1..Len(values) : values[i].k \in {"nan", "inf"}

RECURSIVE SumN(_)
SumN(xs) == IF xs = <<>> THEN 0 ELSE Head(xs).n + SumN(Tail(xs))

RECURSIVE SumSq(_)
SumSq(xs) == IF xs = <<>> THEN 0 ELSE Head(xs).n * Head(xs).n + SumSq(Tail(xs))

\* the number of adjacent pairs (a, b) with b < a
Cuts(xs) == Cardinality({i \in 1..(Len(xs) - 1) : xs[i + 1].n < xs[i].n})

\* the statistics the score is made of, for whole-number amounts xs:
\* mean = s / n, pstdev = sqrt(dd) / n, cv = sqrt(dd) / s
Stats(xs) ==
    [n |-> Len(xs), s |-> SumN(xs),
     dd |-> Len(xs) * SumSq(xs) - SumN(xs) * SumN(xs),
     cuts |-> Cuts(xs)]

\* 2 * (n - 1) * (1000 - 600 * cut_rate - c / 2): what 1600 * (n - 1) * cv
\* is compared with to decide  10 * score >= c / 2
Margin(st, c) == 2000 * (st.n - 1) - 1200 * st.cuts - c * (st.n - 1)

\* 10 * (100 - 60 * cut_rate - 80 * cv) >= c / 2
ScoreGE(st, c) ==
    /\ Margin(st, c) >= 0
    /\ FracLE(st.dd, st.s * st.s, Margin(st, c) * Margin(st, c),
              (1600 * (st.n - 1)) * (1600 * (st.n - 1)))

\* 10 * (100 - 60 * cut_rate - 80 * cv) <= c / 2
ScoreLE(st, c) ==
    \/ Margin(st, c) <= 0
    \/ FracLE(Margin(st, c) * Margin(st, c),
              (1600 * (st.n - 1)) * (1600 * (st.n - 1)), st.dd, st.s * st.s)

\* the greatest j in lo..hi with 10 * score >= j - 1/2 (it holds for lo)
RECURSIVE NearestFrom(_, _, _)
NearestFrom(st, lo, hi) ==
    IF lo >= hi THEN lo
    ELSE LET mid == (lo + hi + 1) \div 2
         IN  IF ScoreGE(st, 2 * mid - 1) THEN NearestFrom(st, mid, hi)
             ELSE NearestFrom(st, lo, mid - 1)

\* round(score, 1), in tenths: the nearest integer to 10 * score, ties to
\* even; -1 stands for every value below 0 (clamp makes them 0)
RoundTenths(st) ==
    LET j == NearestFrom(st, -1, 1001)
    IN  IF j >= 0 /\ ScoreLE(st, 2 * j - 1) /\ j % 2 # 0 THEN j - 1 ELSE j

MaxOf(a, b) == IF a >= b THEN a ELSE b

MinOf(a, b) == IF a <= b THEN a ELSE b

\* mutant: the lower bound is not applied
clamp_upper(x, lo, hi) == MinOf(hi, x)

clamp(x, lo, hi) == MaxOf(lo, MinOf(hi, x))

\* round(clamp(score, 0, 100), 1); rounding to a tenth and clamping to
\* bounds that are tenths commute, so the tenths are clamped
stability_score_from_dist(dists) ==
    IF HasStr(dists) THEN Raise
    ELSE IF Len(NonNull(dists)) < 4 THEN Null
    ELSE IF HasNonFinite(dists) THEN Raise
    ELSE IF Stats(NonNull(dists)).s <= 0 THEN Null
    ELSE Rat(clamp(RoundTenths(Stats(NonNull(dists))), 0, 1000), 10)

\* mutant: the slope is taken over every slot of the list
trend_slope_all_slots(values) ==
    IF HasStr(values) THEN Raise
    ELSE IF Len(NonNull(values)) < 4 THEN Null
    ELSE LET vals == NonNull(values)
         IN  FDiv(FSub(vals[Len(vals)], vals[1]), Num(Len(values) - 1))

trend_slope(values) ==
    IF HasStr(values) THEN Raise
    ELSE IF Len(NonNull(values)) < 4 THEN Null
    ELSE LET vals == NonNull(values)
         IN  FDiv(FSub(vals[Len(vals)], vals[1]), Num(Len(vals) - 1))

\* IEEE-754 addition
FAdd(a, b) ==
    IF a.k = "nan" \/ b.k = "nan" THEN NaN
    ELSE IF a.k = "inf" /\ b.k = "inf" THEN IF a.n = b.n THEN a ELSE NaN
    ELSE IF a.k = "inf" THEN a
    ELSE IF b.k = "inf" THEN b
    ELSE Rat(a.n * b.d + b.n * a.d, a.d * b.d)

RECURSIVE FSum(_)
FSum(xs) == IF xs = <<>> THEN Num(0) ELSE FAdd(Head(xs), FSum(Tail(xs)))

\* mutant: three amounts are taken to be enough
dist_sum_floor3(last_dists) ==
    IF Len(NonNull(last_dists)) < 3 THEN Null
    ELSE IF HasStr(last_dists) THEN Raise
    ELSE FRound(FSum(NonNull(last_dists)), 10000)

\* round(sum(d8), 4) if len(d8) >= 4 else None
dist_sum(last_dists) ==
    IF Len(NonNull(last_dists)) < 4 THEN Null
    ELSE IF HasStr(last_dists) THEN Raise
    ELSE FRound(FSum(NonNull(last_dists)), 10000)

\* round(sl, 6) if sl is not None else None
dist_slope(last_dists) ==
    LET sl == trend_slope(last_dists)
    IN  IF sl.k \in {"null", "raise"} THEN sl ELSE FRound(sl, 1000000)

(***************************************************************************)
(* Snapshot records, batches and the History Store                         *)
(***************************************************************************)
\* mutant: a record that already carries a derived value
NewItemPrefilled(ticker, issuer, ex, dist, price) ==
    [ticker |-> ticker, issuer |-> issuer, frequency |-> "Weekly",
     ex_dividend_date |-> ex, distribution_per_share |-> dist,
     price_proxy |-> price, nav_official |-> Null,
     price_chg_ex_1w_pct |-> Null, price_chg_ex_1m_pct |-> Null,
     dist_chg_ex_1w_pct |-> Null, dist_chg_ex_1m_pct |-> Null,
     nav_chg_ex_1w_pct |-> Null, nav_chg_ex_1m_pct |-> Null,
     days_since_ex_div |-> [k |-> "num", n |-> 0, d |-> 1], dist_sum_8w |-> Null,
     dist_slope_8w |-> Null, dist_stability_score |-> Null]

\* the record build_items appends for a discovered ticker: every derived
\* field starts as None
NewItem(ticker, issuer, ex, dist, price) ==
    [ticker |-> ticker, issuer |-> issuer, frequency |-> "Weekly",
     ex_dividend_date |-> ex, distribution_per_share |-> dist,
     price_proxy |-> price, nav_official |-> Null,
     price_chg_ex_1w_pct |-> Null, price_chg_ex_1m_pct |-> Null,
     dist_chg_ex_1w_pct |-> Null, dist_chg_ex_1m_pct |-> Null,
     nav_chg_ex_1w_pct |-> Null, nav_chg_ex_1m_pct |-> Null,
     days_since_ex_div |-> Null, dist_sum_8w |-> Null,
     dist_slope_8w |-> Null, dist_stability_score |-> Null]

DerivedFields ==
    {"days_since_ex_div", "price_chg_ex_1w_pct", "price_chg_ex_1m_pct",
     "dist_chg_ex_1w_pct", "dist_chg_ex_1m_pct", "nav_chg_ex_1w_pct",
     "nav_chg_ex_1m_pct", "dist_stability_score", "dist_sum_8w",
     "dist_slope_8w"}

\* a history item that has no "ticker" key
NoTicker == "<no ticker>"

\* a day without a file in data/history
NoBatch == [kind |-> "none", generated_at |-> 0, items |-> <<>>]

\* a file of data/history that json.loads rejects
CorruptBatch == [kind |-> "corrupt", generated_at |-> 0, items |-> <<>>]

\* a file of data/history that json.loads accepts but that is no object
\* with a "generated_at" string and an "items" list (null, [], a number,
\* {"items": null}, ...)
MisshapenBatch == [kind |-> "misshapen", generated_at |-> 0, items |-> <<>>]

\* the payload main builds: {"generated_at": ..., "items": items}
Payload(day, its) == [kind |-> "batch", generated_at |-> day, items |-> its]

\* the days that have a file, in the order sorted(hist_dir.glob("*.json"))
\* gives the files (file names are ISO days)
RECURSIVE SortedDays(_)
SortedDays(S) ==
    IF S = {} THEN <<>>
    ELSE LET m == CHOOSE x \in S : \A y \in S : x <= y
         IN  <<m>> \o SortedDays(S \ {m})

LastN(seq, n) ==
    IF Len(seq) <= n THEN seq ELSE SubSeq(seq, Len(seq) - n + 1, Len(seq))

\* mutant: every file is read, however many there are
load_history_all(hist, days) ==
    LET files == SortedDays({d \in DOMAIN hist : hist[d].kind # "none"})
        good == SelectSeq(files, LAMBDA d : hist[d].kind # "corrupt")
    IN  [i \in 1..Len(good) |-> hist[good[i]]]

load_history(hist, days) ==
    LET files == LastN(SortedDays({d \in DOMAIN hist : hist[d].kind # "none"}), days)
        good == SelectSeq(files, LAMBDA d : hist[d].kind # "corrupt")
    IN  [i \in 1..Len(good) |-> hist[good[i]]]

\* str(it.get("frequency","")).lower() == "weekly"
IsWeekly(f) == f \in {"Weekly", "weekly"}

(***************************************************************************)
(* Timeline Builder                                                        *)
(***************************************************************************)
Row(snap, it) ==
    [run_date |-> snap.generated_at, ex_div |-> it.ex_dividend_date,
     price |-> it.price_proxy, dist |-> it.distribution_per_share,
     nav |-> it.nav_official]

RECURSIVE Flatten(_)
Flatten(ss) == IF ss = <<>> THEN <<>> ELSE Head(ss) \o Flatten(Tail(ss))

\* mutant: one list of rows for all tickers
Timeline_all_tickers(loaded, t) ==
    Flatten([i \in 1..Len(loaded) |->
        LET snap == loaded[i]
            mine == SelectSeq(snap.items, LAMBDA it : IsWeekly(it.frequency))
        IN  [j \in 1..Len(mine) |-> Row(snap, mine[j])]])

\* timeline[t] after the loop over the loaded snapshots
Timeline(loaded, t) ==
    Flatten([i \in 1..Len(loaded) |->
        LET snap == loaded[i]
            mine == SelectSeq(snap.items,
                       LAMBDA it : IsWeekly(it.frequency) /\ it.ticker = t)
        IN  [j \in 1..Len(mine) |-> Row(snap, mine[j])]])

\* snap.get(...) / iterating the items raises for a misshapen snapshot;
\* it["ticker"] raises KeyError for a weekly history item without the key
TimelineRaises(loaded) ==
    \/ \E i \in 1..Len(loaded) : loaded[i].kind = "misshapen"
    \/ \E i \in 1..Len(loaded) : \E j \in 1..Len(loaded[i].items) :
           /\ IsWeekly(loaded[i].items[j].frequency)
           /\ loaded[i].items[j].ticker = NoTicker

\* rows.sort(key=lambda x: x["run_date"]): a stable sort
RECURSIVE InsertByRunDate(_, _)
InsertByRunDate(sorted, r) ==
    IF sorted = <<>> THEN <<r>>
    ELSE IF sorted[Len(sorted)].run_date <= r.run_date THEN Append(sorted, r)
    ELSE Append(InsertByRunDate(SubSeq(sorted, 1, Len(sorted) - 1), r),
                sorted[Len(sorted)])

RECURSIVE SortByRunDate(_)
SortByRunDate(rows) ==
    IF rows = <<>> THEN <<>>
    ELSE InsertByRunDate(SortByRunDate(SubSeq(rows, 1, Len(rows) - 1)),
                         rows[Len(rows)])

\* [r for r in rows if r["ex_div"]]
WithExDiv(rows) == SelectSeq(rows, LAMBDA r : ~IsNull(r.ex_div))

\* the rows of ticker t the comparisons work on
QualifyingRows(loaded, t) == WithExDiv(SortByRunDate(Timeline(loaded, t)))

(***************************************************************************)
(* Comparison Engine                                                       *)
(***************************************************************************)
\* load_history(45)
LookbackDays == 45

\* ex_dates_sorted[-8:]
RecentWindow == 8

\* date.fromisoformat raises for a value that is no ISO date string
BadDate(v) == v.k # "num"

\* mutant: a single row is taken to be enough
TooFewRowsOne(rows) == Len(rows) < 1

\* if len(rows) < 2: continue
TooFewRows(rows) == Len(rows) < 2

\* mutant: the row with the greatest ex-dividend date
LatestRowByExDiv(rows) ==
    rows[CHOOSE i \in 1..Len(rows) :
            \A j \in 1..Len(rows) : rows[j].ex_div.k = "num" =>
                (rows[i].ex_div.k = "num" /\ rows[j].ex_div.n <= rows[i].ex_div.n)]

\* latest = rows[-1]
LatestRow(rows) == rows[Len(rows)]

\* the loop of find_prior from row i downwards: the index of the row it
\* returns, 0 for None, -1 when date.fromisoformat raises
RECURSIVE ScanPrior(_, _, _, _)
ScanPrior(rows, latest_ex, days_back, i) ==
    IF i = 0 THEN 0
    ELSE IF BadDate(rows[i].ex_div) THEN -1
    ELSE IF Abs((latest_ex - rows[i].ex_div.n) - days_back) <= 3 THEN i
    ELSE ScanPrior(rows, latest_ex, days_back, i - 1)

\* mutant: the oldest row in the window instead of the most recent
find_prior_oldest(rows, latest_ex, days_back) ==
    LET cands == {i \in 1..(Len(rows) - 1) :
                    /\ rows[i].ex_div.k = "num"
                    /\ Abs((latest_ex - rows[i].ex_div.n) - days_back) <= 3}
    IN  IF cands = {} THEN ScanPrior(rows, latest_ex, days_back, Len(rows) - 1)
        ELSE CHOOSE c \in cands : \A o \in cands : c <= o

find_prior(rows, latest_ex, days_back) ==
    ScanPrior(rows, latest_ex, days_back, Len(rows) - 1)

\* the order of sorted() on ex-dividend date strings: ISO dates by day, a
\* malformed string (it starts with a letter) after every ISO date
ExKeyLE(a, b) ==
    IF a.k = "num" /\ b.k = "num" THEN a.n <= b.n ELSE b.k # "num"

RECURSIVE SortedKeys(_)
SortedKeys(S) ==
    IF S = {} THEN <<>>
    ELSE LET m == CHOOSE x \in S : \A y \in S : ExKeyLE(x, y)
         IN  <<m>> \o SortedKeys(S \ {m})

\* mutant: the first row of rows with ex_div d is kept
ByExFirst(rows, d) ==
    rows[CHOOSE i \in 1..Len(rows) :
            /\ rows[i].ex_div = d
            /\ \A j \in 1..(i - 1) : rows[j].ex_div # d]

\* by_ex[d] after the loop: the last row of rows with ex_div d
ByEx(rows, d) ==
    rows[CHOOSE i \in 1..Len(rows) :
            /\ rows[i].ex_div = d
            /\ \A j \in (i + 1)..Len(rows) : rows[j].ex_div # d]

\* last_dists: the amounts of the last 8 distinct ex-dividend dates
LastDists(rows) ==
    LET last_ex_dates ==
            LastN(SortedKeys({rows[i].ex_div : i \in 1..Len(rows)}), RecentWindow)
    IN  [i \in 1..Len(last_ex_dates) |-> ByEx(rows, last_ex_dates[i]).dist]

\* the assignments under "if prev_w:" / "if prev_m:" for the row at index i
WithWeek(it, latest, rows, i) ==
    IF i = 0 THEN it
    ELSE [it EXCEPT
            !.price_chg_ex_1w_pct = pct_change(latest.price, rows[i].price),
            !.dist_chg_ex_1w_pct = pct_change(latest.dist, rows[i].dist),
            !.nav_chg_ex_1w_pct = pct_change(latest.nav, rows[i].nav)]

WithMonth(it, latest, rows, i) ==
    IF i = 0 THEN it
    ELSE [it EXCEPT
            !.price_chg_ex_1m_pct = pct_change(latest.price, rows[i].price),
            !.dist_chg_ex_1m_pct = pct_change(latest.dist, rows[i].dist),
            !.nav_chg_ex_1m_pct = pct_change(latest.nav, rows[i].nav)]

\* the body of the loop over current_items for one record, given the
\* ticker's sorted, filtered rows: the record as left, and whether an
\* exception left the loop
Annotate(it, rows, today) ==
    IF TooFewRows(rows) THEN [it |-> it, raised |-> FALSE]
    ELSE IF BadDate(LatestRow(rows).ex_div) THEN [it |-> it, raised |-> TRUE]
    ELSE
      LET latest == LatestRow(rows)
          latest_ex == latest.ex_div.n
          prev_w == find_prior(rows, latest_ex, 7)
          prev_m == find_prior(rows, latest_ex, 30)
      IN  IF prev_w = -1 \/ prev_m = -1 THEN [it |-> it, raised |-> TRUE]
          ELSE
            LET it1 == [it EXCEPT !.days_since_ex_div = Num(today - latest_ex)]
                it2 == WithMonth(WithWeek(it1, latest, rows, prev_w),
                                 latest, rows, prev_m)
                last_dists == LastDists(rows)
                score == stability_score_from_dist(last_dists)
            IN  IF score = Raise THEN [it |-> it2, raised |-> TRUE]
                ELSE [it |-> [it2 EXCEPT
                                !.dist_stability_score = score,
                                !.dist_sum_8w = dist_sum(last_dists),
                                !.dist_slope_8w = dist_slope(last_dists)],
                      raised |-> FALSE]

\* the loop over current_items from record i on; it stops at an exception
RECURSIVE AnnotateFrom(_, _, _, _)
AnnotateFrom(its, i, loaded, today) ==
    IF i > Len(its) THEN [items |-> its, raised |-> FALSE]
    ELSE LET r == Annotate(its[i], QualifyingRows(loaded, its[i].ticker), today)
         IN  IF r.raised THEN [items |-> [its EXCEPT ![i] = r.it], raised |-> TRUE]
             ELSE AnnotateFrom([its EXCEPT ![i] = r.it], i + 1, loaded, today)

compute_ex_div_comparisons(current_items, hist, today) ==
    LET loaded == load_history(hist, LookbackDays)
    IN  IF TimelineRaises(loaded) THEN [items |-> current_items, raised |-> TRUE]
        ELSE AnnotateFrom(current_items, 1, loaded, today)

(***************************************************************************)
(* Alert Generator                                                         *)
(***************************************************************************)
\* the threshold, in percent
ALERT_DROP_PCT == -15

\* mutant: the boundary is excluded
BelowThreshold(x) ==
    \/ x.k = "num" /\ x.n < ALERT_DROP_PCT * x.d
    \/ x.k = "inf" /\ x.n < 0

\* x <= ALERT_DROP_PCT for a float x (a comparison with nan is False)
AtOrBelowThreshold(x) ==
    \/ x.k = "num" /\ x.n <= ALERT_DROP_PCT * x.d
    \/ x.k = "inf" /\ x.n < 0

Alert(it, type, x) ==
    [ticker |-> it.ticker, type |-> type, pct |-> FRound(x, 100),
     ex_dividend_date |-> it.ex_dividend_date]

AlertsOf(it) ==
    (IF ~IsNull(it.dist_chg_ex_1w_pct) /\ AtOrBelowThreshold(it.dist_chg_ex_1w_pct)
     THEN <<Alert(it, "DIVIDEND_DROP_VS_1W", it.dist_chg_ex_1w_pct)>> ELSE <<>>)
    \o
    (IF ~IsNull(it.dist_chg_ex_1m_pct) /\ AtOrBelowThreshold(it.dist_chg_ex_1m_pct)
     THEN <<Alert(it, "DIVIDEND_DROP_VS_1M", it.dist_chg_ex_1m_pct)>> ELSE <<>>)

generate_alerts(its) == Flatten([i \in 1..Len(its) |-> AlertsOf(its[i])])

(***************************************************************************)
(* Collection stage (its result only) and main                             *)
(***************************************************************************)
\* dedupe: the first record of every (ticker, issuer) key is kept
dedupe(its) ==
    LET keep == {i \in 1..Len(its) :
                    \A j \in 1..(i - 1) :
                        <<its[j].ticker, its[j].issuer>> # <<its[i].ticker, its[i].issuer>>}
        idx == SortedDays(keep)
    IN  [i \in 1..Len(idx) |-> its[idx[i]]]

\* no PR entry for a ticker
NoInfo == [present |-> FALSE, distribution_per_share |-> Null, ex_dividend_date |-> Null]

\* the entry yieldmax_weekly_distributions_and_dates gives for a ticker
PrInfo(dist, ex) == [present |-> TRUE, distribution_per_share |-> dist, ex_dividend_date |-> ex]

\* build_items: one record per discovered (ticker, issuer); only a YieldMax
\* ticker found in the PR data gets an amount and an ex-dividend date
build_items(found, ymd, price) ==
    LET discovered == dedupe(found)
    IN  [i \in 1..Len(discovered) |->
            LET d == discovered[i]
                info == IF d.issuer = "YieldMax" THEN ymd[d.ticker] ELSE NoInfo
            IN  NewItem(d.ticker, d.issuer, info.ex_dividend_date,
                        info.distribution_per_share, price[d.ticker])]

(***************************************************************************)
(* Bounds and input domains                                                *)
(***************************************************************************)
\* the day before the first day of data/history in the model
BaseDay == 31

\* days that may have a batch before the first modelled run
MaxSeed == 2

\* days on which modelled runs happen
MaxDays == 3

\* runs of main in the multi-run specification
MaxRuns == 3

\* longest list of values handed to a calculation
MaxWin == 5

SeedDays == (BaseDay + 1)..(BaseDay + MaxSeed)

RunDays == (BaseDay + MaxSeed + 1)..(BaseDay + MaxSeed + MaxDays)

Tickers == {"AAA", "BBB"}

\* ex-dividend days: seen from day 31, day 0 is in the one-month window
\* and days 24 and 27 are both in the one-week window
ExDays == {0, 24, 27, 31}

Found(t, i) == [ticker |-> t, issuer |-> i]

NoFile == [kind |-> "none", generated_at |-> 0, items |-> <<>>]

NoAlertsFile == [kind |-> "none", generated_at |-> 0, alerts |-> <<>>]

\* batches already in data/history: one record of ticker AAA with an
\* ex-dividend date and an amount ...
SeedItem(ex, dist) ==
    [NewItem("AAA", "YieldMax", ex, dist, Num(50)) EXCEPT !.nav_official = Num(10)]

PlainSeedItems ==
    {SeedItem(Num(e), Num(a)) : e \in ExDays, a \in {17, 20}}
    \cup {SeedItem(Num(24), Num(0)), SeedItem(Num(27), Null),
          SeedItem(Null, Num(20))}

\* ... or content that this revision's collection stage does not write
OddSeedItems ==
    {SeedItem(Str, Num(20)), SeedItem(Num(24), Str), SeedItem(Num(27), NaN),
     [SeedItem(Num(24), Num(20)) EXCEPT !.frequency = "Monthly"],
     [SeedItem(Num(24), Num(25)) EXCEPT !.frequency = "weekly"],
     [SeedItem(Num(24), Num(20)) EXCEPT !.ticker = NoTicker],
     [SeedItem(Num(24), Num(20)) EXCEPT !.ticker = "BBB"]}

\* (the batch stamped the day before its file name was built just before
\* midnight UTC and written just after)
SeedBatches(day) ==
    {NoBatch, CorruptBatch, MisshapenBatch, Payload(day - 1, <<SeedItem(Num(31), Num(20))>>)}
    \cup {Payload(day, <<it>>) : it \in PlainSeedItems \cup OddSeedItems}

EmptyStore == [d \in SeedDays \cup RunDays |-> NoBatch]

SeededStores ==
    {[d \in SeedDays \cup RunDays |-> IF d \in SeedDays THEN f[d] ELSE NoBatch] :
        f \in {g \in [SeedDays -> UNION {SeedBatches(d) : d \in SeedDays}] :
                 \A d \in SeedDays : g[d] \in SeedBatches(d)}}

\* what the collection stage found in a run
Input(found, info, price) ==
    [found |-> found,
     ymd |-> [t \in Tickers |-> IF t = "AAA" THEN info ELSE NoInfo],
     price |-> [t \in Tickers |-> price]]

EngineInputs ==
    {Input(<<Found("AAA", "YieldMax")>>, info, Num(40)) :
        info \in {NoInfo, PrInfo(Num(17), Num(31)), PrInfo(Num(20), Num(31)),
                  PrInfo(Num(20), Num(27)), PrInfo(Num(20), Null)}}
    \cup {Input(<<Found("AAA", "YieldMax"), Found("AAA", "GraniteShares"),
                  Found("AAA", "YieldMax")>>, info, Null) :
        info \in {NoInfo, PrInfo(Num(17), Num(31))}}
    \cup {Input(<<Found("BBB", "GraniteShares"), Found("AAA", "YieldMax")>>,
                PrInfo(Num(17), Num(31)), Num(40))}

(***************************************************************************)
(* main, step by step                                                      *)
(***************************************************************************)
\* items = build_items(); payload = {"generated_at": ..., "items": items}
StartRun(inputs, maxRuns) ==
    /\ pc \in {"idle", "done", "crashed"}
    /\ runs < maxRuns
    /\ \E in \in inputs : items' = build_items(in.found, in.ymd, in.price)
    /\ generated_at' = clock
    /\ alerts' = <<>>
    /\ runs' = runs + 1
    /\ pc' = "built"
    /\ UNCHANGED <<history, clock, outfile, alertsfile, calcVars>>

\* mutant: a day's file is written once and then kept
write_history_snapshot_once(hist, day, payload) ==
    IF hist[day].kind = "none" THEN [hist EXCEPT ![day] = payload] ELSE hist

\* write_history_snapshot(payload): open(path, "w") replaces the day's file
write_history_snapshot(hist, day, payload) == [hist EXCEPT ![day] = payload]

WriteHistory ==
    /\ pc = "built"
    /\ history' = write_history_snapshot(history, clock, Payload(generated_at, items))
    /\ pc' = "written"
    /\ UNCHANGED <<clock, runs, generated_at, items, alerts, outfile, alertsfile, calcVars>>

\* compute_ex_div_comparisons(items); an exception ends the process
Compute ==
    /\ pc = "written"
    /\ LET r == compute_ex_div_comparisons(items, history, clock)
       IN  /\ items' = r.items
           /\ pc' = IF r.raised THEN "crashed" ELSE "annotated"
    /\ UNCHANGED <<history, clock, runs, generated_at, alerts, outfile, alertsfile, calcVars>>

\* mutant: the snapshot is written as soon as the history batch is
WriteOutputEarly ==
    /\ pc = "written"
    /\ outfile' = Payload(generated_at, items)
    /\ pc' = "annotated"
    /\ UNCHANGED <<history, clock, runs, generated_at, items, alerts, alertsfile, calcVars>>

\* json.dump(payload, OUTFILE)
WriteOutput ==
    /\ pc = "annotated"
    /\ outfile' = Payload(generated_at, items)
    /\ pc' = "saved"
    /\ UNCHANGED <<history, clock, runs, generated_at, items, alerts, alertsfile, calcVars>>

\* alerts = generate_alerts(items)
GenerateAlerts ==
    /\ pc = "saved"
    /\ alerts' = generate_alerts(items)
    /\ pc' = "alerted"
    /\ UNCHANGED <<history, clock, runs, generated_at, items, outfile, alertsfile, calcVars>>

\* json.dump({...alerts...}, "data/alerts.json")
WriteAlerts ==
    /\ pc = "alerted"
    /\ alertsfile' = [kind |-> "alerts", generated_at |-> generated_at, alerts |-> alerts]
    /\ pc' = "done"
    /\ UNCHANGED <<history, clock, runs, generated_at, items, alerts, outfile, calcVars>>

\* midnight UTC passes between two runs
Tick ==
    /\ pc \in {"idle", "done", "crashed"}
    /\ clock + 1 \in RunDays
    /\ clock' = clock + 1
    /\ UNCHANGED <<history, pc, runs, generated_at, items, alerts, outfile, alertsfile, calcVars>>

CalcIdle == calcOp = "none" /\ calcIn = <<>> /\ calcOut = Null

InitRun ==
    /\ clock = BaseDay + MaxSeed + 1
    /\ pc = "idle"
    /\ runs = 0
    /\ generated_at = 0
    /\ items = <<>>
    /\ alerts = <<>>
    /\ outfile = NoFile
    /\ alertsfile = NoAlertsFile
    /\ CalcIdle

\* one run of main over a History Store of any content
InitEngine == history \in SeededStores /\ InitRun

NextEngine ==
    \/ StartRun(EngineInputs, 1)
    \/ WriteHistory
    \/ Compute
    \/ WriteOutput
    \/ GenerateAlerts
    \/ WriteAlerts

SpecEngine == InitEngine /\ [][NextEngine]_vars

(***************************************************************************)
(* One run of main over a long History Store: daily batches written by     *)
(* earlier runs, one distribution event of AAA every 5 days                *)
(***************************************************************************)
\* days that may have a file before the run
MaxHist == 46

\* the ex-dividend date the batch of a day reports for AAA
ExOf(day) == day - (day % 5)

\* ... and for BBB, which is on another schedule
ExOfOther(day) == day - (day % 7)

\* how many of the days before the run have a file
Depths == {0, 1, 12, 17, MaxHist - 2, MaxHist - 1, MaxHist}

\* what the earlier runs collected: files only on the last depth days; a
\* file that is corrupt (bad, 0 for none); the amount of an event revised
\* after the first day it was reported; events without an amount (every
\* second one, or all but every third); amounts falling from event to
\* event; a second ticker and a record of AAA that is not weekly in every
\* batch
Knobs ==
    [depth : Depths, bad : {0, MaxHist - 5}, revised : BOOLEAN,
     gaps : {"none", "odd", "most"}, falling : BOOLEAN, other : BOOLEAN]

\* the amount the batch of a day reports for event number k
Amount(k, day, kn) ==
    IF kn.gaps = "odd" /\ k % 2 = 1 THEN Null
    ELSE IF kn.gaps = "most" /\ k % 3 # 0 THEN Null
    ELSE Num((IF kn.falling THEN 60 - 2 * k ELSE 20)
             + (IF kn.revised /\ day % 5 = 0 THEN 5 ELSE 0))

LongBatch(day, kn) ==
    IF day = kn.bad THEN CorruptBatch
    ELSE IF day <= MaxHist - kn.depth THEN NoBatch
    ELSE Payload(day,
            <<SeedItem(Num(ExOf(day)), Amount(ExOf(day) \div 5, day, kn))>>
            \o (IF kn.other
                THEN <<[SeedItem(Num(ExOfOther(day)), Num(17)) EXCEPT !.ticker = "BBB"],
                       [SeedItem(Num(day), Num(99)) EXCEPT !.frequency = "Monthly"]>>
                ELSE <<>>))

LongStores ==
    {[d \in 1..(MaxHist + 1) |-> IF d <= MaxHist THEN LongBatch(d, kn) ELSE NoBatch] :
        kn \in Knobs}

LongInputs ==
    {Input(<<Found("AAA", "YieldMax")>>, info, Num(40)) :
        info \in {NoInfo, PrInfo(Num(20), Num(ExOf(MaxHist + 1))),
                  PrInfo(Num(17), Num(ExOf(MaxHist + 1)))}}
    \cup {Input(<<Found("BBB", "YieldMax"), Found("AAA", "YieldMax")>>,
                PrInfo(Num(20), Num(ExOf(MaxHist + 1))), Num(40))}

InitLong ==
    /\ history \in LongStores
    /\ clock = MaxHist + 1
    /\ pc = "idle"
    /\ runs = 0
    /\ generated_at = 0
    /\ items = <<>>
    /\ alerts = <<>>
    /\ outfile = NoFile
    /\ alertsfile = NoAlertsFile
    /\ CalcIdle

NextLong ==
    \/ StartRun(LongInputs, 1)
    \/ WriteHistory
    \/ Compute
    \/ WriteOutput
    \/ GenerateAlerts
    \/ WriteAlerts

SpecLong == InitLong /\ [][NextLong]_vars

\* runs of main, day after day, from an empty History Store
PipeInputs ==
    {Input(<<Found("AAA", "YieldMax")>>, info, Num(40)) :
        info \in {PrInfo(Num(20), Num(24)), PrInfo(Num(17), Num(31))}}
    \cup {Input(<<Found("AAA", "YieldMax"), Found("AAA", "GraniteShares")>>,
                NoInfo, Null),
          Input(<<Found("BBB", "GraniteShares"), Found("AAA", "YieldMax")>>,
                PrInfo(Num(20), Num(27)), Num(50))}

Init == history = EmptyStore /\ InitRun

Next ==
    \/ StartRun(PipeInputs, MaxRuns)
    \/ WriteHistory
    \/ Compute
    \/ WriteOutput
    \/ GenerateAlerts
    \/ WriteAlerts
    \/ Tick

Spec == Init /\ [][Next]_vars

(***************************************************************************)
(* The calculations on their own, over drawn arguments                     *)
(***************************************************************************)
CalcValues ==
    {Null, NaN, Inf(1), Inf(-1), Str} \cup {Num(n) : n \in {-25, 0, 17, 20, 25}}

\* amounts: 2..5 are close together, 40 is an outlier
WinValues == {Null, Str} \cup {Num(n) : n \in {0, 2, 3, 4, 5, 40}}

Windows == UNION {[1..n -> WinValues] : n \in 0..MaxWin}

PctValues ==
    {Null, NaN, Inf(-1), Num(-15), Rat(-1499, 100), Rat(-1501, 100), Num(0)}

AnnotatedItem(t, i, ex, w, m) ==
    [NewItem(t, i, ex, Num(20), Null) EXCEPT
        !.dist_chg_ex_1w_pct = w, !.dist_chg_ex_1m_pct = m]

AnnotatedSets ==
    {<<AnnotatedItem("AAA", "YieldMax", Num(31), w, m)>> :
        w \in PctValues, m \in PctValues}
    \cup {<<AnnotatedItem("AAA", "YieldMax", Null, w, Null),
            AnnotatedItem(t, "GraniteShares", Null, Num(-15), m)>> :
        w \in PctValues, m \in PctValues, t \in Tickers}

CalcPct ==
    /\ calcOp = "none"
    /\ \E new \in CalcValues, old \in CalcValues :
        /\ calcIn' = <<new, old>>
        /\ calcOut' = pct_change(new, old)
    /\ calcOp' = "pct_change"
    /\ UNCHANGED pipeVars

CalcScore ==
    /\ calcOp = "none"
    /\ \E dists \in Windows :
        /\ calcIn' = dists
        /\ calcOut' = stability_score_from_dist(dists)
    /\ calcOp' = "stability_score_from_dist"
    /\ UNCHANGED pipeVars

CalcSlope ==
    /\ calcOp = "none"
    /\ \E dists \in Windows :
        /\ calcIn' = dists
        /\ calcOut' = dist_slope(dists)
    /\ calcOp' = "dist_slope"
    /\ UNCHANGED pipeVars

CalcSum ==
    /\ calcOp = "none"
    /\ \E dists \in Windows :
        /\ calcIn' = dists
        /\ calcOut' = dist_sum(dists)
    /\ calcOp' = "dist_sum"
    /\ UNCHANGED pipeVars

CalcAlerts ==
    /\ calcOp = "none"
    /\ \E its \in AnnotatedSets :
        /\ calcIn' = its
        /\ calcOut' = generate_alerts(its)
    /\ calcOp' = "generate_alerts"
    /\ UNCHANGED pipeVars

InitCalc == history = EmptyStore /\ InitRun

NextCalc == CalcPct \/ CalcScore \/ CalcSlope \/ CalcSum \/ CalcAlerts

SpecCalc == InitCalc /\ [][NextCalc]_vars

(***************************************************************************)
(* Properties                                                              *)
(***************************************************************************)
\* compute_ex_div_comparisons has returned and today is still the same day
AnnotatedNow == pc \in {"annotated", "saved", "alerted"}

\* the rows the comparisons of ticker t work on, for the store as it is
RowsNow(t) == QualifyingRows(load_history(history, LookbackDays), t)

IsDate(v) == v.k = "num"

\* C1 (as stated): for every ticker with at least 2 qualifying rows, the
\* anchor of days_since_ex_div is the row with the greatest ex_div date.
C1_AnchorIsGreatestExDiv ==
    AnnotatedNow =>
        \A i \in 1..Len(items) :
            LET rows == RowsNow(items[i].ticker)
            IN  Len(rows) >= 2 =>
                    \E j \in 1..Len(rows) :
                        /\ IsDate(rows[j].ex_div)
                        /\ \A h \in 1..Len(rows) :
                               IsDate(rows[h].ex_div) => rows[h].ex_div.n <= rows[j].ex_div.n
                        /\ items[i].days_since_ex_div = Num(clock - rows[j].ex_div.n)

\* C1 (amended): the anchor is the last row in run-date order, whatever its
\* ex_div date: days_since_ex_div counts from that row's date and every
\* percentage change that is set compares that row's value with a prior row.
C1_AnchorIsLastByRunDate ==
    AnnotatedNow =>
        \A i \in 1..Len(items) :
            LET rows == RowsNow(items[i].ticker)
                L == Len(rows)
            IN  L >= 2 =>
                    /\ \A j \in 1..L : rows[j].run_date <= rows[L].run_date
                    /\ IsDate(rows[L].ex_div)
                    /\ items[i].days_since_ex_div = Num(clock - rows[L].ex_div.n)
                    /\ ~IsNull(items[i].dist_chg_ex_1w_pct) =>
                         \E j \in 1..(L - 1) :
                            /\ rows[j].dist.k = "num" /\ rows[j].dist.n # 0
                            /\ rows[L].dist.k = "num"
                            /\ items[i].dist_chg_ex_1w_pct =
                                 Rat(100 * (rows[L].dist.n - rows[j].dist.n), rows[j].dist.n)
                    /\ ~IsNull(items[i].price_chg_ex_1m_pct) =>
                         \E j \in 1..(L - 1) :
                            /\ rows[j].price.k = "num" /\ rows[j].price.n # 0
                            /\ rows[L].price.k = "num"
                            /\ items[i].price_chg_ex_1m_pct =
                                 Rat(100 * (rows[L].price.n - rows[j].price.n), rows[j].price.n)

\* C1 witness: a ticker was annotated whose last row by run date carries an
\* earlier ex-dividend date than an earlier row and has a one-month prior.
C1_Witness ==
    /\ AnnotatedNow
    /\ \E i \in 1..Len(items) :
        LET rows == RowsNow(items[i].ticker)
            L == Len(rows)
        IN  /\ L >= 2
            /\ \E j \in 1..(L - 1) :
                  IsDate(rows[j].ex_div) /\ rows[j].ex_div.n > rows[L].ex_div.n
            /\ ~IsNull(items[i].days_since_ex_div)
            /\ ~IsNull(items[i].price_chg_ex_1m_pct)

\* C2 (as stated): compute_ex_div_comparisons never raises, whatever the
\* history holds.
C2_NeverRaises == pc # "crashed"

\* C3: after compute_ex_div_comparisons, a record whose ticker has 0 or 1
\* qualifying rows has all ten derived fields null.
C3_NullSafety ==
    pc \in {"annotated", "saved", "alerted", "done", "crashed"} =>
        \A i \in 1..Len(items) :
            Len(RowsNow(items[i].ticker)) <= 1 =>
                \A f \in DerivedFields : items[i][f] = Null

\* C3 witness: one record of the run has exactly one qualifying row while
\* another ticker's record was annotated.
C3_Witness ==
    /\ pc = "annotated"
    /\ \E i \in 1..Len(items) : Len(RowsNow(items[i].ticker)) = 1
    /\ \E i \in 1..Len(items) : ~IsNull(items[i].days_since_ex_div)

AlertTypes == {"DIVIDEND_DROP_VS_1W", "DIVIDEND_DROP_VS_1M"}

\* the field an alert type watches
Watched(it, type) ==
    IF type = "DIVIDEND_DROP_VS_1W" THEN it.dist_chg_ex_1w_pct ELSE it.dist_chg_ex_1m_pct

\* non-null and <= -15.0
Breaches(x) == (x.k = "num" /\ x.n <= (-15) * x.d) \/ (x.k = "inf" /\ x.n = -1)

AlertKey(a) == <<a.ticker, a.type, a.ex_dividend_date>>

\* C4: generate_alerts emits exactly one alert of a type for every record
\* whose watched field is non-null and <= -15.0 (boundary included), and
\* none for a null value or a value above the threshold.
C4_AlertsExact ==
    calcOp = "generate_alerts" =>
        /\ \A a \in 1..Len(calcOut) : calcOut[a].type \in AlertTypes
        /\ \A type \in AlertTypes : \A i \in 1..Len(calcIn) :
              LET key == <<calcIn[i].ticker, type, calcIn[i].ex_dividend_date>>
              IN  Cardinality({a \in 1..Len(calcOut) : AlertKey(calcOut[a]) = key})
                  = Cardinality({j \in 1..Len(calcIn) :
                        /\ <<calcIn[j].ticker, type, calcIn[j].ex_dividend_date>> = key
                        /\ Breaches(Watched(calcIn[j], type))})
        /\ Len(calcOut) =
              Cardinality({<<j, type>> \in (1..Len(calcIn)) \X AlertTypes :
                              Breaches(Watched(calcIn[j], type))})

\* C4 witness: one record exactly at the threshold in both fields gave both
\* alerts.
C4_Witness ==
    /\ calcOp = "generate_alerts"
    /\ Len(calcIn) = 1
    /\ calcIn[1].dist_chg_ex_1w_pct = Num(-15)
    /\ calcIn[1].dist_chg_ex_1m_pct = Num(-15)
    /\ Len(calcOut) = 2

\* C5 (as stated): the alerts of a run hold no two entries with the same
\* (ticker, type, ex_dividend_date).
C5_NoDuplicateAlertKeys ==
    \A a \in 1..Len(alerts) : \A b \in 1..Len(alerts) :
        a # b => AlertKey(alerts[a]) # AlertKey(alerts[b])

\* r is a prior whose ex-dividend date is within 3 days of days_back before
\* latest's
InWindow(latest, r, days_back) ==
    /\ IsDate(r.ex_div)
    /\ Abs((latest.ex_div.n - r.ex_div.n) - days_back) <= 3

PeriodFields(days_back) ==
    IF days_back = 7
    THEN <<"price_chg_ex_1w_pct", "dist_chg_ex_1w_pct", "nav_chg_ex_1w_pct">>
    ELSE <<"price_chg_ex_1m_pct", "dist_chg_ex_1m_pct", "nav_chg_ex_1m_pct">>

\* C6: for days_back 7 and 30 the prior is the most recent row before latest
\* (in run-date order) within the +/-3 day window, closer or not; with no
\* row in the window the period's three fields stay null.
C6_PriorIsMostRecentInWindow ==
    AnnotatedNow =>
        \A i \in 1..Len(items) : \A days_back \in {7, 30} :
            LET rows == RowsNow(items[i].ticker)
                L == Len(rows)
                cands == {j \in 1..(L - 1) : InWindow(rows[L], rows[j], days_back)}
                f == PeriodFields(days_back)
            IN  L >= 2 =>
                  IF cands = {}
                  THEN \A x \in 1..3 : items[i][f[x]] = Null
                  ELSE LET j == CHOOSE c \in cands : \A o \in cands : o <= c
                       IN  /\ items[i][f[1]] = pct_change(rows[L].price, rows[j].price)
                           /\ items[i][f[2]] = pct_change(rows[L].dist, rows[j].dist)
                           /\ items[i][f[3]] = pct_change(rows[L].nav, rows[j].nav)

\* C6 witness: two priors are in the one-week window, the older one closer
\* to 7 days, and the change is the one against the more recent prior.
C6_Witness ==
    /\ AnnotatedNow
    /\ \E i \in 1..Len(items) :
        LET rows == RowsNow(items[i].ticker)
            L == Len(rows)
        IN  /\ L >= 3
            /\ \E o \in 1..(L - 1) : \E c \in (o + 1)..(L - 1) :
                  /\ InWindow(rows[L], rows[o], 7)
                  /\ InWindow(rows[L], rows[c], 7)
                  /\ Abs((rows[L].ex_div.n - rows[o].ex_div.n) - 7)
                       < Abs((rows[L].ex_div.n - rows[c].ex_div.n) - 7)
                  /\ ~IsNull(items[i].dist_chg_ex_1w_pct)
                  /\ items[i].dist_chg_ex_1w_pct = pct_change(rows[L].dist, rows[c].dist)
                  /\ items[i].dist_chg_ex_1w_pct # pct_change(rows[L].dist, rows[o].dist)

\* C7 (as stated): pct_change gives (new - old) / old * 100 for two numbers
\* with old non-zero, null when a value is null or old is zero, and for no
\* argument raises or gives NaN or an infinity.
C7_PctChangeNeverNaN ==
    calcOp = "pct_change" =>
        LET new == calcIn[1]
            old == calcIn[2]
        IN  /\ (IsNull(new) \/ IsNull(old) \/ old = Num(0)) => calcOut = Null
            /\ (IsNum(new) /\ IsNum(old) /\ old.n # 0) =>
                  calcOut = Rat(100 * (new.n * old.d - old.n * new.d), new.d * old.n)
            /\ calcOut.k \notin {"nan", "inf", "raise"}

\* every slot of a list is null or a finite number
NumericWin(w) == \A i \in 1..Len(w) : w[i].k \in {"null", "num"}

\* C8 (as stated): the slope is (last non-null - first non-null) divided by
\* (number of slots, null slots included, - 1), null below 4 non-null values.
C8_SlopeOverAllSlots ==
    (calcOp = "dist_slope" /\ NumericWin(calcIn)) =>
        LET vals == NonNull(calcIn)
        IN  IF Len(vals) < 4 THEN calcOut = Null
            ELSE calcOut = RoundTo(Rat(vals[Len(vals)].n - vals[1].n, Len(calcIn) - 1),
                                   1000000)

\* C8 (amended): the slope is (last non-null - first non-null) divided by
\* (number of non-null values - 1), rounded to 6 decimals; null slots do not
\* count; below 4 non-null values there is no slope.
C8_SlopeOverNonNullValues ==
    calcOp = "dist_slope" =>
        LET vals == NonNull(calcIn)
        IN  /\ Len(vals) < 4 => calcOut \in {Null, Raise}
            /\ (NumericWin(calcIn) /\ Len(vals) >= 4) =>
                  calcOut = RoundTo(Rat(vals[Len(vals)].n - vals[1].n, Len(vals) - 1),
                                    1000000)

\* C8 witness: a window with a null slot between its first and last value
\* and at least 4 non-null values got a non-zero slope.
C8_Witness ==
    /\ calcOp = "dist_slope"
    /\ NumericWin(calcIn)
    /\ Len(NonNull(calcIn)) >= 4
    /\ Len(calcIn) > Len(NonNull(calcIn))
    /\ ~IsNull(calcIn[1]) /\ ~IsNull(calcIn[Len(calcIn)])
    /\ calcOut.k = "num" /\ calcOut.n # 0

Days == DOMAIN history

StrictlyDecreasing(xs) == \A i \in 1..(Len(xs) - 1) : xs[i + 1].n < xs[i].n

Reverse(xs) == [i \in 1..Len(xs) |-> xs[Len(xs) + 1 - i]]

\* the tenths of a score
Tenths(v) == v.n * (10 \div v.d)

\* a < b for two finite numbers
NumLT(a, b) == a.n * b.d < b.n * a.d

\* k / 10 is exactly clamp(100 - 60 * cut_rate - 80 * cv, 0, 100)
ExactlyClamped(st, k) ==
    \/ k = 0 /\ ScoreLE(st, 0)
    \/ k = 1000 /\ ScoreGE(st, 2000)
    \/ ScoreGE(st, 2 * k) /\ ScoreLE(st, 2 * k)

\* k / 10 is clamp(100 - 60 * cut_rate - 80 * cv, 0, 100) rounded to a tenth
RoundedClamped(st, k) ==
    /\ k \in 0..1000
    /\ k = 0 \/ ScoreGE(st, 2 * k - 1)
    /\ k = 1000 \/ ScoreLE(st, 2 * k + 1)

\* C10 (as stated): the score is null or in [0, 100]; with 4 or more values
\* and mean > 0 it is exactly clamp(100 - 60 * cut_rate - 80 * cv, 0, 100),
\* with mean <= 0 it is null; a strictly decreasing series has cut_rate 1 and
\* scores strictly lower than its reversal (same cv, no cuts).
C10_ScoreExactAndStrictlyLower ==
    (calcOp = "stability_score_from_dist" /\ NumericWin(calcIn)) =>
        LET xs == NonNull(calcIn)
            st == Stats(xs)
        IN  /\ calcOut = Null \/ (calcOut.k = "num" /\ 0 <= calcOut.n /\ calcOut.n <= 100 * calcOut.d)
            /\ (Len(xs) >= 4 /\ st.s > 0) =>
                  calcOut.k = "num" /\ ExactlyClamped(st, Tenths(calcOut))
            /\ (Len(xs) >= 4 /\ st.s <= 0) => calcOut = Null
            /\ (Len(xs) >= 4 /\ st.s > 0 /\ StrictlyDecreasing(xs)) =>
                  /\ st.cuts = Len(xs) - 1
                  /\ NumLT(calcOut, stability_score_from_dist(Reverse(xs)))

\* C10 (amended): the score is null or in [0, 100]; with 4 or more values
\* and mean > 0 it is clamp(100 - 60 * cut_rate - 80 * cv, 0, 100) rounded to
\* one decimal, with mean <= 0 or fewer than 4 values it is null; a strictly
\* decreasing series has cut_rate 1 and scores no higher than its reversal,
\* and strictly lower unless both scores are clamped to 0.
C10_ScoreRoundedAndNoHigher ==
    calcOp = "stability_score_from_dist" =>
        LET xs == NonNull(calcIn)
            st == Stats(xs)
            rev == stability_score_from_dist(Reverse(xs))
        IN  /\ calcOut \in {Null, Raise}
               \/ (calcOut.k = "num" /\ 0 <= calcOut.n /\ calcOut.n <= 100 * calcOut.d)
            /\ Len(xs) < 4 => calcOut \in {Null, Raise}
            /\ (NumericWin(calcIn) /\ Len(xs) >= 4 /\ st.s > 0) =>
                  calcOut.k = "num" /\ RoundedClamped(st, Tenths(calcOut))
            /\ (NumericWin(calcIn) /\ Len(xs) >= 4 /\ st.s <= 0) => calcOut = Null
            /\ (NumericWin(calcIn) /\ Len(xs) >= 4 /\ st.s > 0 /\ StrictlyDecreasing(xs)) =>
                  /\ st.cuts = Len(xs) - 1
                  /\ ~NumLT(rev, calcOut)
                  /\ rev.n > 0 => NumLT(calcOut, rev)
                  /\ rev.n = 0 => calcOut.n = 0

\* C10 witness: a strictly decreasing series with a positive score, lower
\* than the score of its reversal.
C10_Witness ==
    /\ calcOp = "stability_score_from_dist"
    /\ NumericWin(calcIn)
    /\ Len(NonNull(calcIn)) >= 4
    /\ StrictlyDecreasing(NonNull(calcIn))
    /\ calcOut.k = "num" /\ calcOut.n > 0
    /\ NumLT(calcOut, stability_score_from_dist(Reverse(NonNull(calcIn))))

\* the distinct ex-dividend dates of a ticker's rows
ExDates(rows) == {rows[i].ex_div : i \in 1..Len(rows)}

\* the last 8 distinct distribution events
RecentEvents(rows) ==
    {e \in ExDates(rows) : Cardinality({f \in ExDates(rows) : f.n > e.n}) < 8}

\* the amount of an event: the one reported by the latest run that has it
EventAmount(rows, e) ==
    rows[CHOOSE i \in 1..Len(rows) :
            /\ rows[i].ex_div = e
            /\ \A j \in 1..Len(rows) :
                   rows[j].ex_div = e => rows[j].run_date <= rows[i].run_date].dist

\* the recent events that carry an amount
WithAmount(rows) == {e \in RecentEvents(rows) : ~IsNull(EventAmount(rows, e))}

\* C11: for a processed ticker, fewer than 4 recent events with an amount
\* leave dist_stability_score, dist_sum_8w and dist_slope_8w null; with at
\* least 4, dist_sum_8w and dist_slope_8w are set; exactly 4 identical
\* positive amounts score 100.0.
C11_DataSufficiencyFloor ==
    AnnotatedNow =>
        \A i \in 1..Len(items) :
            LET rows == RowsNow(items[i].ticker)
                have == WithAmount(rows)
            IN  Len(rows) >= 2 =>
                    /\ Cardinality(have) < 4 =>
                           /\ IsNull(items[i].dist_stability_score)
                           /\ IsNull(items[i].dist_sum_8w)
                           /\ IsNull(items[i].dist_slope_8w)
                    /\ Cardinality(have) >= 4 =>
                           /\ IsNum(items[i].dist_sum_8w)
                           /\ IsNum(items[i].dist_slope_8w)
                    /\ ( /\ Cardinality(have) = 4
                         /\ \E a \in 1..100 : \A e \in have : EventAmount(rows, e) = Num(a) )
                           => items[i].dist_stability_score = Num(100)

\* one ticker with three events only, another with exactly four identical
\* amounts scored 100.0
C11_Witness ==
    /\ AnnotatedNow
    /\ \E i, j \in 1..Len(items) :
        /\ Len(RowsNow(items[i].ticker)) >= 2
        /\ Cardinality(WithAmount(RowsNow(items[i].ticker))) = 3
        /\ IsNull(items[i].dist_sum_8w)
        /\ Cardinality(WithAmount(RowsNow(items[j].ticker))) = 4
        /\ items[j].dist_stability_score = Num(100)
        /\ IsNum(items[j].dist_sum_8w)
        /\ IsNum(items[j].dist_slope_8w)

\* the sum of the amounts of a set of events
RECURSIVE EventSum(_, _)
EventSum(rows, E) ==
    IF E = {} THEN Num(0)
    ELSE LET e == CHOOSE x \in E : TRUE
         IN  FAdd(EventAmount(rows, e), EventSum(rows, E \ {e}))

\* the earliest and the latest of a set of events
FirstEvent(E) == CHOOSE e \in E : \A f \in E : e.n <= f.n

LastEvent(E) == CHOOSE e \in E : \A f \in E : f.n <= e.n

\* C12: the window holds one amount per distinct ex-dividend date (the
\* later run's for a recurring date), in ex-dividend-date order, cut to the
\* last 8 dates; dist_sum_8w is the sum (to 4 decimals) of the amounts of
\* exactly those events, each counted once, and dist_slope_8w runs from the
\* earliest to the latest of them.
C12_WindowOfDistinctEvents ==
    AnnotatedNow =>
        \A i \in 1..Len(items) :
            LET rows == RowsNow(items[i].ticker)
                have == WithAmount(rows)
            IN  (Len(rows) >= 2 /\ Cardinality(have) >= 4) =>
                    /\ items[i].dist_sum_8w = RoundTo(EventSum(rows, have), 10000)
                    /\ items[i].dist_slope_8w =
                           RoundTo(FDiv(FSub(EventAmount(rows, LastEvent(have)),
                                             EventAmount(rows, FirstEvent(have))),
                                        Num(Cardinality(have) - 1)), 1000000)

\* more than 8 distinct ex-dividend dates, each reported by several daily
\* batches, one of them with an amount that was revised by a later run
C12_Witness ==
    /\ AnnotatedNow
    /\ \E i \in 1..Len(items) :
        LET rows == RowsNow(items[i].ticker)
        IN  /\ Cardinality(ExDates(rows)) > 8
            /\ Len(rows) > 3 * Cardinality(ExDates(rows))
            /\ \E a, b \in 1..Len(rows) :
                   /\ a < b
                   /\ rows[a].ex_div = rows[b].ex_div
                   /\ rows[a].ex_div \in RecentEvents(rows)
                   /\ IsNum(rows[a].dist) /\ IsNum(rows[b].dist)
                   /\ rows[a].dist # rows[b].dist
            /\ IsNum(items[i].dist_sum_8w)
            /\ items[i].dist_slope_8w # Num(0)

\* a history item with every field the engine reads in its proper form
ItemWellFormed(it) ==
    /\ it.ticker # NoTicker
    /\ it.ex_dividend_date.k \in {"null", "num"}
    /\ it.distribution_per_share.k \in {"null", "num"}
    /\ it.price_proxy.k \in {"null", "num"}
    /\ it.nav_official.k \in {"null", "num"}

\* every record of every readable batch is well formed: the only defects
\* of the store are missing, unparseable or misshapen files
OnlyFileDefects ==
    \A d \in DOMAIN history : \A j \in 1..Len(history[d].items) :
        ItemWellFormed(history[d].items[j])

\* C13: a missing, empty or corrupt History Store never aborts the run: a
\* day's file that cannot be read as a batch {generated_at, items} is
\* skipped and the run goes on with the other batches.
C13_CorruptBatchNeverAborts == OnlyFileDefects => pc # "crashed"

\* the days that have a file in the History Store
Files == {d \in DOMAIN history : history[d].kind # "none"}

\* the 45 most recent of them
RecentFiles == {d \in Files : Cardinality({e \in Files : e > d}) < 45}

\* the records of ticker t the timeline is made of: (day, position) of
\* every weekly record of t with an ex-dividend date in a readable batch
TimelineRecords(t) ==
    {<<d, j>> \in RecentFiles \X (1..3) :
        /\ history[d].kind = "batch"
        /\ j <= Len(history[d].items)
        /\ history[d].items[j].ticker = t
        /\ IsWeekly(history[d].items[j].frequency)
        /\ ~IsNull(history[d].items[j].ex_dividend_date)}

RowOf(dj) == Row(history[dj[1]], history[dj[1]].items[dj[2]])

\* C14: the timeline of a ticker holds exactly the weekly records of that
\* ticker with an ex-dividend date from the 45 most recent history batches,
\* in ascending run-date order; a ticker is processed when it has two.
C14_TimelineContent ==
    AnnotatedNow =>
        \A t \in Tickers :
            LET rows == RowsNow(t)
                recs == TimelineRecords(t)
            IN  /\ Len(rows) = Cardinality(recs)
                /\ {rows[i] : i \in 1..Len(rows)} = {RowOf(dj) : dj \in recs}
                /\ \A a, b \in 1..Len(rows) :
                       a < b => rows[a].run_date <= rows[b].run_date
                /\ \A i \in 1..Len(items) :
                       items[i].ticker = t =>
                           (IsNull(items[i].days_since_ex_div) <=> Len(rows) < 2)

\* more than 45 files, with records of the ticker in a file that is too
\* old, in an unreadable file's place, of another frequency and without an
\* ex-dividend date, next to records of another ticker
C14_Witness ==
    /\ AnnotatedNow
    /\ Cardinality(Files) > 45
    /\ \E d \in Files \ RecentFiles :
           \E j \in 1..Len(history[d].items) :
               /\ history[d].items[j].ticker = "AAA"
               /\ IsWeekly(history[d].items[j].frequency)
               /\ ~IsNull(history[d].items[j].ex_dividend_date)
    /\ \E d \in RecentFiles : history[d].kind = "corrupt"
    /\ \E d \in RecentFiles :
           \E j \in 1..Len(history[d].items) :
               /\ history[d].items[j].ticker = "AAA"
               /\ ~IsWeekly(history[d].items[j].frequency)
    /\ IsNull(history[clock].items[Len(history[clock].items)].ex_dividend_date)
    /\ Len(RowsNow("AAA")) = Cardinality(RecentFiles) - 2
    /\ Len(RowsNow("BBB")) = Cardinality(RecentFiles) - 2

\* the records with their derived fields set to v
WithDerived(its, v) ==
    [j \in 1..Len(its) |->
        [f \in DOMAIN its[j] |-> IF f \in DerivedFields THEN v ELSE its[j][f]]]

\* the records as collected, before annotation
Unannotated(its) == WithDerived(its, Null)

\* the History Store with other derived values in all of its records
Scrubbed(hist) ==
    [d \in DOMAIN hist |-> [hist[d] EXCEPT !.items = WithDerived(@, Num(1))]]

\* every batch in the History Store has all ten derived fields null
BatchesUnannotated ==
    \A d \in DOMAIN history :
        history[d].kind = "batch" => history[d].items = Unannotated(history[d].items)

\* the annotations are those computed from the raw fields and today alone
FromRawFieldsOnly ==
    AnnotatedNow =>
        items = compute_ex_div_comparisons(Unannotated(items), Scrubbed(history),
                                           clock).items

\* a run that annotates the records the previous run of this day saved
\* (same store, same date) arrives at the annotations that run saved
RepeatedRunAgrees ==
    ( /\ pc = "written" /\ pc' = "annotated"
      /\ outfile.kind = "batch"
      /\ outfile.generated_at = clock
      /\ Unannotated(outfile.items) = items )
    => items' = outfile.items

\* C15: every batch a run writes carries the ten derived fields as null;
\* the derived fields a run produces depend on the raw fields of the history
\* batches and on today only, and a second run over the same store on the
\* same day produces the same annotations.
C15_NoDerivedStatePersists ==
    /\ [](BatchesUnannotated /\ FromRawFieldsOnly)
    /\ [][RepeatedRunAgrees]_vars

\* a run repeated on the same day has arrived at the annotations the
\* previous run saved, and they are not all null
C15_Witness ==
    /\ pc = "annotated"
    /\ runs >= 2
    /\ outfile.kind = "batch"
    /\ outfile.generated_at = clock
    /\ outfile.items = items
    /\ \E i \in 1..Len(items) : IsNum(items[i].days_since_ex_div)
    /\ history[clock].items = Unannotated(items)

\* the History Store without the records of tickers other than t
WithoutOthers(hist, t) ==
    [d \in DOMAIN hist |->
        [hist[d] EXCEPT !.items = SelectSeq(@, LAMBDA it : it.ticker = t)]]

\* the History Store with other values in the records of tickers other
\* than t
OthersChanged(hist, t) ==
    [d \in DOMAIN hist |->
        [hist[d] EXCEPT !.items =
            [j \in 1..Len(@) |->
                IF @[j].ticker = t THEN @[j]
                ELSE [@[j] EXCEPT !.ex_dividend_date = Num(clock - 7),
                                  !.distribution_per_share = Num(1),
                                  !.price_proxy = Num(1),
                                  !.nav_official = Num(1)]]]]

\* the record a call on this record alone would produce over the store hist
AnnotatedAlone(it, hist) ==
    compute_ex_div_comparisons(Unannotated(<<it>>), hist, clock).items[1]

\* each record's derived fields come from its own ticker's history entries
PerTickerOnly ==
    AnnotatedNow =>
        \A i \in 1..Len(items) :
            /\ items[i] = AnnotatedAlone(items[i], WithoutOthers(history, items[i].ticker))
            /\ items[i] = AnnotatedAlone(items[i], OthersChanged(history, items[i].ticker))

\* the call leaves the History Store and every record's raw fields alone
ComputeFrame ==
    pc = "written" =>
        /\ history' = history
        /\ Len(items') = Len(items)
        /\ \A i \in 1..Len(items) :
               \A f \in (DOMAIN items[i]) \ DerivedFields : items'[i][f] = items[i][f]

HistoryWrittenFirst ==
    pc \in {"written", "annotated", "saved", "alerted", "done", "crashed"} =>
        history[generated_at] = Payload(generated_at, Unannotated(items))

\* the current run's records are part of each ticker's timeline
TimelineHasCurrentRun ==
    AnnotatedNow =>
        \A i \in 1..Len(items) :
            ~IsNull(items[i].ex_dividend_date) =>
                \E r \in 1..Len(RowsNow(items[i].ticker)) :
                    /\ RowsNow(items[i].ticker)[r].run_date = generated_at
                    /\ RowsNow(items[i].ticker)[r].ex_div = items[i].ex_dividend_date

\* the records are annotated only once today's batch is in the store
AnnotateAfterHistory ==
    (items' # items /\ items' # Unannotated(items')) =>
        /\ pc = "written"
        /\ history[clock] = Payload(generated_at, items)

\* alerts are generated from the annotated records
AlertsFromAnnotated ==
    (alerts' # alerts /\ alerts' # <<>>) =>
        /\ pc \in {"annotated", "saved"}
        /\ alerts' = generate_alerts(items)

\* the alerts file is written after the alerts were generated
AlertsFileLast ==
    alertsfile' # alertsfile =>
        /\ pc = "alerted"
        /\ alertsfile'.alerts = alerts

\* C17 (as stated): history write, timeline read, annotation, alert
\* generation, and only then the final artifacts: the annotated snapshot
\* and the alerts file are both written after the alerts were generated.
C17_ArtifactsAfterAlerts ==
    /\ [](HistoryWrittenFirst /\ TimelineHasCurrentRun)
    /\ [][/\ AnnotateAfterHistory
          /\ AlertsFromAnnotated
          /\ AlertsFileLast
          /\ outfile' # outfile => (pc = "alerted" /\ outfile'.items = items)]_vars

\* C17 (amended): history write, timeline read, annotation, then the
\* annotated snapshot is written, then the alerts are generated from the
\* annotated records, then the alerts file is written.
C17_SnapshotBeforeAlerts ==
    /\ [](HistoryWrittenFirst /\ TimelineHasCurrentRun)
    /\ [][/\ AnnotateAfterHistory
          /\ AlertsFromAnnotated
          /\ AlertsFileLast
          /\ outfile' # outfile =>
                (pc = "annotated" /\ alerts = <<>> /\ outfile'.items = items)
          /\ (alerts' # alerts /\ alerts' # <<>>) =>
                (pc = "saved" /\ outfile = Payload(generated_at, items))]_vars

\* a run that went through every step: annotated records saved, alerts
\* generated from them and written
C17_Witness ==
    /\ pc = "done"
    /\ outfile = Payload(generated_at, items)
    /\ \E i \in 1..Len(items) : IsNum(items[i].dist_chg_ex_1w_pct)
    /\ alerts # <<>>
    /\ alerts = generate_alerts(items)
    /\ alertsfile.kind = "alerts"
    /\ alertsfile.generated_at = generated_at
    /\ alertsfile.alerts = alerts
    /\ history[generated_at] = Payload(generated_at, Unannotated(items))

====
